---- MODULE Spec2Model ----
(***************************************************************************)
(* A model of the streaming map-reduce executor of                         *)
(* src/bin/src/server/script/mapreduce.rs: the caller thread (add_vertex,  *)
(* join), the router thread, the reporter thread and the worker threads,   *)
(* communicating over crossbeam bounded channels.  Every channel operation *)
(* of the code is one atomic step; the threads interleave freely.          *)
(***************************************************************************)
EXTENDS Integers, Sequences, FiniteSets, TLC

\* ------------------------------------------------------------------ bounds
\* statics::MAP_REDUCE_WORKER_POOL_SIZE (configuration): number of workers.
NumWorkers == 2
\* CHANNEL_CAPACITY of the code is 1000; the model scales it down.
CHANNEL_CAPACITY == 1
\* The caller submits at most this many vertices before it calls join.
MaxVertices == 2
\* The router receives at most this many reporter ticks.
MaxReports == 1

Workers == 1..NumWorkers

VARIABLES
    mapreduce_in,      \* channel caller -> router, of vertices
    worker_in,         \* channel router -> workers, of tasks
    worker_out,        \* channel workers -> router, of values
    error_chan,        \* channel workers -> router, of errors
    shutdown_chan,     \* number of () queued on the pool's shutdown channel
    worker_shutdown,   \* per worker: number of () queued on its private channel
    worker_pc,         \* per worker: position of the worker thread
    worker_item,       \* per worker: the task taken, then the value computed
    router_pc,         \* position of the router thread
    should_force_shutdown,
    should_gracefully_shutdown,
    pending_tasks,
    progress,
    report_num,
    last_reduced_item, \* <<>> is None, <<v>> is Some(v)
    router_task,       \* the task the router is sending, <<>> when none
    join_idx,          \* index into worker_threads of the worker being joined
    router_result,     \* <<>> until the router thread returns
    reporter_pc,       \* position of the reporter thread
    caller_pc,         \* position of the caller thread
    add_calls,         \* the add_vertex calls made so far, with what they returned
    join_result        \* <<>> until WorkerPool::join returns

vars == << mapreduce_in, worker_in, worker_out, error_chan, shutdown_chan,
           worker_shutdown, worker_pc, worker_item, router_pc,
           should_force_shutdown, should_gracefully_shutdown, pending_tasks,
           progress, report_num, last_reduced_item, router_task, join_idx,
           router_result, reporter_pc, caller_pc, add_calls, join_result >>

chan_vars == << mapreduce_in, worker_in, worker_out, error_chan, shutdown_chan,
                worker_shutdown >>
worker_vars == << worker_pc, worker_item >>
router_flags == << should_force_shutdown, should_gracefully_shutdown >>
router_counters == << pending_tasks, progress, report_num >>
router_vars == << router_pc, should_force_shutdown, should_gracefully_shutdown,
                  pending_tasks, progress, report_num, last_reduced_item,
                  router_task, join_idx, router_result >>
caller_vars == << caller_pc, add_calls, join_result >>

\* ------------------------------------------------------- values and tasks
\* The user script of the model: map(v) = f(v), reduce(a, b) = a + b.
MapFn(v) == 2 * v - 1
ReduceFn(a, b) == a + b

MapTask(v) == << "Map", v >>

\* Mutant of ReduceTask: the value received is used twice, the carry dropped.
ReduceTask_ValueTwice(a, b) == << "Reduce", b, b >>

\* WorkerTask::Reduce((last_reduced_item_inner, value))
ReduceTask(a, b) == << "Reduce", a, b >>

JsonNull == << "null" >>
JsonNum(n) == << "num", n >>

\* The WorkerSetup errors of the four setup steps differ in their description
\* text only, which nothing reads: the model keeps the kind.
WorkerSetupError == [ kind |-> "WorkerSetup", cause |-> << >> ]
MapCallError(task) == [ kind |-> "MapCall", cause |-> task ]
ReduceCallError(task) == [ kind |-> "ReduceCall", cause |-> task ]

\* ------------------------------------------------------ channel predicates
\* A thread that has returned or panicked has dropped its channel ends.
WorkerAlive(w) == worker_pc[w] \notin { "done", "panicked" }
RouterTerminated == router_pc \in { "done", "panicked" }
ReporterTerminated == reporter_pc \in { "done", "panicked" }

\* worker_in has a receiver as long as one worker thread is alive.
WorkerInConnected == \E w \in Workers : WorkerAlive(w)

\* !error_receiver.is_empty()
ErrorQueued(chan) == Len(chan) > 0

\* Mutant of SendError: the failing worker returns without sending its error.
SendError_Dropped(chan, err) == chan

\* Mutant of SendError: the error is put in front of the ones already queued.
SendError_Front(chan, err) == << err >> \o chan

\* try_or_send!: the error is sent on the error channel.
SendError(chan, err) == Append(chan, err)

\* Mutant of ShouldTerminate: a graceful shutdown that does not wait for the
\* pending tasks.
ShouldTerminate_NoDrain(force, graceful, pending) == force \/ graceful

\* Mutant of ShouldTerminate: the graceful shutdown is never acted on.
ShouldTerminate_ForceOnly(force, graceful, pending) == force

\* The termination predicate of the router loop.
ShouldTerminate(force, graceful, pending) == force \/ (graceful /\ pending = 0)

\* The end of a router iteration,
\*   if should_force_shutdown || (should_gracefully_shutdown && pending_tasks == 0),
\* evaluated on the router's own variables (no channel is touched): the loop
\* is left for the joins of the workers, or entered again.
AfterIteration(force, graceful, pending) ==
    IF ShouldTerminate(force, graceful, pending) THEN "join_signal"
                                                 ELSE "poll_error"

\* Mutant of PendingAfterDispatch: the dispatched task is not counted.
PendingAfterDispatch_NotCounted(pending, sent) == pending

\* The router counts the task it has just tried to dispatch, sent or not.
PendingAfterDispatch(pending, sent) == pending + 1

\* Mutant of FinalValue: an absent carry is returned as the number 0.
FinalValue_NoneAsZero(item) ==
    IF item = << >> THEN << "num", 0 >> ELSE << "num", item[1] >>

\* Ok(match last_reduced_item { None => JsonValue::Null, Some(value) => value.0 })
FinalValue(item) == IF item = << >> THEN JsonNull ELSE JsonNum(item[1])

\* Mutant of AddVertexReturn: the result of the send is not looked at.
AddVertexReturn_AlwaysTrue(receiver_dropped) == TRUE

\* in_sender.send(vertex).is_ok(): the send fails when the receiver is gone.
AddVertexReturn(receiver_dropped) == ~receiver_dropped

\* ------------------------------------------------------------------- Init
Init ==
    /\ mapreduce_in = << >>
    /\ worker_in = << >>
    /\ worker_out = << >>
    /\ error_chan = << >>
    /\ shutdown_chan = 0
    /\ worker_shutdown = [ w \in Workers |-> 0 ]
    /\ worker_pc = [ w \in Workers |-> "setup" ]
    /\ worker_item = [ w \in Workers |-> << >> ]
    /\ router_pc = "poll_error"
    /\ should_force_shutdown = FALSE
    /\ should_gracefully_shutdown = FALSE
    /\ pending_tasks = 0
    /\ progress = 0
    /\ report_num = 0
    /\ last_reduced_item = << >>
    /\ router_task = << >>
    /\ join_idx = 1
    /\ router_result = << >>
    /\ reporter_pc = "recv"
    /\ caller_pc = "running"
    /\ add_calls = << >>
    /\ join_result = << >>

\* ---------------------------------------------------------------- workers
\* Mutant of WorkerFail: try_or_send! without its `return`, the worker goes
\* on to the task loop after it has sent its error.
WorkerFail_NoReturn(w, err) ==
    /\ Len(error_chan) < NumWorkers
    /\ worker_pc' = [ worker_pc EXCEPT ![w] = "select" ]
    /\ error_chan' = SendError(error_chan, err)
    /\ worker_item' = [ worker_item EXCEPT ![w] = << >> ]

\* A worker deposits its error and returns; the send panics when the error
\* channel has no receiver left.
WorkerFail(w, err) ==
    /\ Len(error_chan) < NumWorkers
    /\ IF RouterTerminated
         THEN /\ worker_pc' = [ worker_pc EXCEPT ![w] = "panicked" ]
              /\ error_chan' = error_chan
         ELSE /\ worker_pc' = [ worker_pc EXCEPT ![w] = "done" ]
              /\ error_chan' = SendError(error_chan, err)
    /\ worker_item' = [ worker_item EXCEPT ![w] = << >> ]

\* The four try_or_send! steps before the task loop (context::create,
\* l.exec, table.get("map"), table.get("reduce")): all succeed, or the first
\* that fails sends a WorkerSetup error and the thread returns.
WorkerSetup(w) ==
    /\ worker_pc[w] = "setup"
    /\ \/ /\ worker_pc' = [ worker_pc EXCEPT ![w] = "select" ]
          /\ UNCHANGED << error_chan, worker_item >>
       \/ WorkerFail(w, WorkerSetupError)
    /\ UNCHANGED << mapreduce_in, worker_in, worker_out, shutdown_chan,
                    worker_shutdown, router_vars, reporter_pc, caller_vars >>

\* select_loop!: recv(in_receiver, task)
WorkerRecvTask(w) ==
    /\ worker_pc[w] = "select"
    /\ worker_in # << >>
    /\ worker_item' = [ worker_item EXCEPT ![w] = Head(worker_in) ]
    /\ worker_in' = Tail(worker_in)
    /\ worker_pc' = [ worker_pc EXCEPT ![w] = "exec" ]
    /\ UNCHANGED << mapreduce_in, worker_out, error_chan, shutdown_chan,
                    worker_shutdown, router_vars, reporter_pc, caller_vars >>

\* select_loop!: recv(shutdown_receiver, _), then `if should_shutdown { return }`
WorkerRecvShutdown(w) ==
    /\ worker_pc[w] = "select"
    /\ worker_shutdown[w] > 0
    /\ worker_shutdown' = [ worker_shutdown EXCEPT ![w] = @ - 1 ]
    /\ worker_pc' = [ worker_pc EXCEPT ![w] = "done" ]
    /\ UNCHANGED << mapreduce_in, worker_in, worker_out, error_chan,
                    shutdown_chan, worker_item, router_vars, reporter_pc,
                    caller_vars >>

\* mapper.call / reducer.call on the task taken; either call may fail.
WorkerExec(w) ==
    /\ worker_pc[w] = "exec"
    /\ LET task == worker_item[w] IN
       \/ /\ worker_item' = [ worker_item EXCEPT ![w] =
                 IF task[1] = "Map" THEN << MapFn(task[2]) >>
                                    ELSE << ReduceFn(task[2], task[3]) >> ]
          /\ worker_pc' = [ worker_pc EXCEPT ![w] = "send_out" ]
          /\ UNCHANGED error_chan
       \/ WorkerFail(w, IF task[1] = "Map" THEN MapCallError(task)
                                           ELSE ReduceCallError(task))
    /\ UNCHANGED << mapreduce_in, worker_in, worker_out, shutdown_chan,
                    worker_shutdown, router_vars, reporter_pc, caller_vars >>

\* out_sender.send(value).expect(..): blocks while the channel is full.
WorkerSendOut(w) ==
    /\ worker_pc[w] = "send_out"
    /\ IF RouterTerminated
         THEN /\ worker_pc' = [ worker_pc EXCEPT ![w] = "panicked" ]
              /\ UNCHANGED worker_out
         ELSE /\ Len(worker_out) < CHANNEL_CAPACITY
              /\ worker_out' = Append(worker_out, worker_item[w][1])
              /\ worker_pc' = [ worker_pc EXCEPT ![w] = "select" ]
    /\ worker_item' = [ worker_item EXCEPT ![w] = << >> ]
    /\ UNCHANGED << mapreduce_in, worker_in, error_chan, shutdown_chan,
                    worker_shutdown, router_vars, reporter_pc, caller_vars >>

WorkerNext ==
    \E w \in Workers :
        \/ WorkerSetup(w)
        \/ WorkerRecvTask(w)
        \/ WorkerRecvShutdown(w)
        \/ WorkerExec(w)
        \/ WorkerSendOut(w)

\* --------------------------------------------------------------- reporter
\* shutdown_receiver.recv_timeout(..) returns Ok: the loop ends.
ReporterRecvShutdown ==
    /\ reporter_pc = "recv"
    /\ shutdown_chan > 0
    /\ shutdown_chan' = shutdown_chan - 1
    /\ reporter_pc' = "done"
    /\ UNCHANGED << mapreduce_in, worker_in, worker_out, error_chan,
                    worker_shutdown, worker_vars, router_vars, caller_vars >>

\* recv_timeout returns Err after REPORT_SECONDS without a message.
ReporterTimeout ==
    /\ reporter_pc = "recv"
    /\ shutdown_chan = 0
    /\ report_num < MaxReports \/ RouterTerminated
    /\ reporter_pc' = "send"
    /\ UNCHANGED << chan_vars, worker_vars, router_vars, caller_vars >>

\* reporter_sender.send(()).unwrap() on the zero-capacity channel: the
\* send fails, and unwrap panics, once the router has dropped the receiver.
\* (The successful rendezvous is the router's step RouterPollReporter.)
ReporterSendFails ==
    /\ reporter_pc = "send"
    /\ RouterTerminated
    /\ reporter_pc' = "panicked"
    /\ UNCHANGED << chan_vars, worker_vars, router_vars, caller_vars >>

ReporterNext == ReporterRecvShutdown \/ ReporterTimeout \/ ReporterSendFails

\* ----------------------------------------------------------------- router
\* Mutant of RouterPollError: `if` where the code has the head of an
\* if / else-if chain, so the other sources are polled in the same iteration.
RouterPollError_NotExclusive ==
    /\ router_pc = "poll_error"
    /\ should_force_shutdown' = (should_force_shutdown \/ ErrorQueued(error_chan))
    /\ router_pc' = "poll_shutdown"
    /\ UNCHANGED << chan_vars, worker_vars, should_gracefully_shutdown,
                    router_counters, last_reduced_item, router_task, join_idx,
                    router_result, reporter_pc, caller_vars >>

\* if !error_receiver.is_empty() { should_force_shutdown = true; }
RouterPollError ==
    /\ router_pc = "poll_error"
    /\ IF ErrorQueued(error_chan)
         THEN /\ should_force_shutdown' = TRUE
              /\ router_pc' = AfterIteration(TRUE, should_gracefully_shutdown,
                                             pending_tasks)
         ELSE /\ router_pc' = "poll_shutdown"
              /\ UNCHANGED should_force_shutdown
    /\ UNCHANGED << chan_vars, worker_vars, should_gracefully_shutdown,
                    router_counters, last_reduced_item, router_task, join_idx,
                    router_result, reporter_pc, caller_vars >>

\* else if shutdown_receiver.try_recv().is_ok() { should_gracefully_shutdown = true; }
RouterPollShutdown ==
    /\ router_pc = "poll_shutdown"
    /\ IF shutdown_chan > 0
         THEN /\ shutdown_chan' = shutdown_chan - 1
              /\ should_gracefully_shutdown' = TRUE
              /\ router_pc' = AfterIteration(should_force_shutdown, TRUE,
                                             pending_tasks)
         ELSE /\ router_pc' = "poll_reporter"
              /\ UNCHANGED << shutdown_chan, should_gracefully_shutdown >>
    /\ UNCHANGED << mapreduce_in, worker_in, worker_out, error_chan,
                    worker_shutdown, worker_vars, should_force_shutdown,
                    router_counters, last_reduced_item, router_task, join_idx,
                    router_result, reporter_pc, caller_vars >>

\* else if reporter_receiver.try_recv().is_ok() { println!(..); report_num += 1; }
\* The channel has capacity 0: the receive succeeds when the reporter is
\* blocked in its send, and completes that send.
RouterPollReporter ==
    /\ router_pc = "poll_reporter"
    /\ IF reporter_pc = "send"
         THEN /\ reporter_pc' = "recv"
              /\ report_num' = report_num + 1
              /\ router_pc' = AfterIteration(should_force_shutdown,
                                             should_gracefully_shutdown,
                                             pending_tasks)
         ELSE /\ router_pc' = "poll_out"
              /\ UNCHANGED << reporter_pc, report_num >>
    /\ UNCHANGED << chan_vars, worker_vars, router_flags, pending_tasks,
                    progress, last_reduced_item, router_task, join_idx,
                    router_result, caller_vars >>

\* Mutant of RouterPollOut: the worker_out branch of the chain is missing, the
\* router goes on to the input poll without receiving an output.
RouterPollOut_Skipped ==
    /\ router_pc = "poll_out"
    /\ router_pc' = "poll_in"
    /\ UNCHANGED << chan_vars, worker_vars, router_flags, router_counters,
                    last_reduced_item, router_task, join_idx, router_result,
                    reporter_pc, caller_vars >>

\* else if let Ok(value) = worker_out_receiver.try_recv() { pending_tasks -= 1; .. }
\* pending_tasks is a usize; the model keeps it an integer, so a decrement
\* at 0 shows as a negative count.
RouterPollOut ==
    /\ router_pc = "poll_out"
    /\ IF worker_out # << >>
         THEN /\ worker_out' = Tail(worker_out)
              /\ pending_tasks' = pending_tasks - 1
              /\ IF last_reduced_item # << >>
                   THEN /\ router_task' = ReduceTask(last_reduced_item[1],
                                                     Head(worker_out))
                        /\ router_pc' = "send_task"
                        /\ UNCHANGED last_reduced_item
                   ELSE /\ last_reduced_item' = << Head(worker_out) >>
                        /\ router_pc' = AfterIteration(should_force_shutdown,
                                             should_gracefully_shutdown,
                                             pending_tasks')
                        /\ UNCHANGED router_task
         ELSE /\ router_pc' = "poll_in"
              /\ UNCHANGED << worker_out, pending_tasks, last_reduced_item,
                              router_task >>
    /\ UNCHANGED << mapreduce_in, worker_in, error_chan, shutdown_chan,
                    worker_shutdown, worker_vars, router_flags, progress,
                    report_num, join_idx, router_result, reporter_pc,
                    caller_vars >>

\* else if let Ok(vertex) = mapreduce_in_receiver.try_recv() { .. }
RouterPollIn ==
    /\ router_pc = "poll_in"
    /\ IF mapreduce_in # << >>
         THEN /\ mapreduce_in' = Tail(mapreduce_in)
              /\ router_task' = MapTask(Head(mapreduce_in))
              /\ router_pc' = "send_task"
         ELSE /\ router_pc' = AfterIteration(should_force_shutdown,
                                             should_gracefully_shutdown,
                                             pending_tasks)
              /\ UNCHANGED << mapreduce_in, router_task >>
    /\ UNCHANGED << worker_in, worker_out, error_chan, shutdown_chan,
                    worker_shutdown, worker_vars, router_flags,
                    router_counters, last_reduced_item, join_idx,
                    router_result, reporter_pc, caller_vars >>

\* worker_in_sender.send(task): blocks while the channel is full and a
\* receiver is left; fails when every worker has dropped its receiver.
\* Then the counters of the Map or Reduce branch are updated.
RouterSendTask ==
    /\ router_pc = "send_task"
    /\ IF WorkerInConnected
         THEN /\ Len(worker_in) < CHANNEL_CAPACITY
              /\ worker_in' = Append(worker_in, router_task)
              /\ UNCHANGED should_force_shutdown
         ELSE /\ should_force_shutdown' = TRUE
              /\ UNCHANGED worker_in
    /\ pending_tasks' = PendingAfterDispatch(pending_tasks, WorkerInConnected)
    /\ IF router_task[1] = "Map"
         THEN /\ progress' = progress + 1
              /\ UNCHANGED last_reduced_item
         ELSE /\ last_reduced_item' = << >>
              /\ UNCHANGED progress
    /\ router_task' = << >>
    /\ router_pc' = AfterIteration(should_force_shutdown',
                                   should_gracefully_shutdown, pending_tasks')
    /\ UNCHANGED << mapreduce_in, worker_out, error_chan, shutdown_chan,
                    worker_shutdown, worker_vars, should_gracefully_shutdown,
                    report_num, join_idx, router_result, reporter_pc,
                    caller_vars >>

\* Worker::join: self.shutdown_sender.send(()).ok()
RouterJoinSignal ==
    /\ router_pc = "join_signal"
    /\ worker_shutdown' = [ worker_shutdown EXCEPT ![join_idx] =
                              IF WorkerAlive(join_idx) THEN @ + 1 ELSE @ ]
    /\ router_pc' = "join_wait"
    /\ UNCHANGED << mapreduce_in, worker_in, worker_out, error_chan,
                    shutdown_chan, worker_vars, router_flags, router_counters,
                    last_reduced_item, router_task, join_idx, router_result,
                    reporter_pc, caller_vars >>

\* Worker::join: self.thread.join().expect(..), then the next worker
RouterJoinWait ==
    /\ router_pc = "join_wait"
    /\ ~WorkerAlive(join_idx)
    /\ IF worker_pc[join_idx] = "panicked"
         THEN /\ router_pc' = "panicked"
              /\ UNCHANGED join_idx
         ELSE IF join_idx < NumWorkers
                THEN /\ join_idx' = join_idx + 1
                     /\ router_pc' = "join_signal"
                ELSE /\ router_pc' = "return"
                     /\ UNCHANGED join_idx
    /\ UNCHANGED << chan_vars, worker_vars, router_flags, router_counters,
                    last_reduced_item, router_task, router_result,
                    reporter_pc, caller_vars >>

\* return if should_force_shutdown { Err(error_receiver.try_recv().expect(..)) }
\*        else { Ok(..) }
RouterReturn ==
    /\ router_pc = "return"
    /\ IF should_force_shutdown
         THEN IF error_chan = << >>
                THEN /\ router_pc' = "panicked"
                     /\ UNCHANGED << error_chan, router_result >>
                ELSE /\ router_result' = << "Err", Head(error_chan) >>
                     /\ error_chan' = Tail(error_chan)
                     /\ router_pc' = "done"
         ELSE /\ router_result' = << "Ok", FinalValue(last_reduced_item) >>
              /\ router_pc' = "done"
              /\ UNCHANGED error_chan
    /\ UNCHANGED << mapreduce_in, worker_in, worker_out, shutdown_chan,
                    worker_shutdown, worker_vars, router_flags, router_counters,
                    last_reduced_item, router_task, join_idx, reporter_pc,
                    caller_vars >>

RouterNext ==
    \/ RouterPollError
    \/ RouterPollShutdown
    \/ RouterPollReporter
    \/ RouterPollOut
    \/ RouterPollIn
    \/ RouterSendTask
    \/ RouterJoinSignal
    \/ RouterJoinWait
    \/ RouterReturn

\* ----------------------------------------------------------------- caller
\* WorkerPool::add_vertex: a blocking send on mapreduce_in.  The k-th call
\* submits vertex k.
AddVertexUpTo(n) ==
    /\ caller_pc = "running"
    /\ Len(add_calls) < n
    /\ LET vertex == Len(add_calls) + 1
           ok == AddVertexReturn(RouterTerminated) IN
       /\ ok => Len(mapreduce_in) < CHANNEL_CAPACITY
       /\ mapreduce_in' = IF ok THEN Append(mapreduce_in, vertex)
                                ELSE mapreduce_in
       /\ add_calls' = Append(add_calls, [ vertex |-> vertex, ok |-> ok ])
    /\ UNCHANGED << worker_in, worker_out, error_chan, shutdown_chan,
                    worker_shutdown, worker_vars, router_vars, reporter_pc,
                    caller_pc, join_result >>

AddVertex == AddVertexUpTo(MaxVertices)

\* WorkerPool::join: for _ in 0..2 { self.shutdown_sender.send(()).ok(); }
JoinSendShutdown ==
    /\ caller_pc \in { "running", "join_send2" }
    /\ shutdown_chan' = IF RouterTerminated /\ ReporterTerminated
                          THEN shutdown_chan ELSE shutdown_chan + 1
    /\ caller_pc' = IF caller_pc = "running" THEN "join_send2"
                                             ELSE "join_reporter"
    /\ UNCHANGED << mapreduce_in, worker_in, worker_out, error_chan,
                    worker_shutdown, worker_vars, router_vars, reporter_pc,
                    add_calls, join_result >>

\* self.reporter_thread.join().expect("Expected reporter thread to not panic")
JoinReporter ==
    /\ caller_pc = "join_reporter"
    /\ ReporterTerminated
    /\ caller_pc' = IF reporter_pc = "panicked" THEN "panicked"
                                                ELSE "join_router"
    /\ UNCHANGED << chan_vars, worker_vars, router_vars, reporter_pc,
                    add_calls, join_result >>

\* self.router_thread.join().expect("Expected router thread to not panic")
JoinRouter ==
    /\ caller_pc = "join_router"
    /\ RouterTerminated
    /\ IF router_pc = "panicked"
         THEN /\ caller_pc' = "panicked"
              /\ UNCHANGED join_result
         ELSE /\ caller_pc' = "returned"
              /\ join_result' = router_result
    /\ UNCHANGED << chan_vars, worker_vars, router_vars, reporter_pc,
                    add_calls >>

CallerNext == AddVertex \/ JoinSendShutdown \/ JoinReporter \/ JoinRouter

\* ------------------------------------------------------------------- Spec
Next == WorkerNext \/ ReporterNext \/ RouterNext \/ CallerNext

Spec == Init /\ [][Next]_vars

\* ------------------------------------------------- what the claims speak of
\* No worker has deposited an error: errors leave the error channel only as
\* the router's Err result.
NoWorkerError ==
    /\ error_chan = << >>
    /\ router_result # << >> => router_result[1] # "Err"

\* The vertices whose add_vertex returned true, in submission order.
Accepted == SelectSeq(add_calls, LAMBDA c : c.ok)

RECURSIVE SumMap(_)
SumMap(calls) ==
    IF calls = << >> THEN 0
    ELSE MapFn(Head(calls).vertex) + SumMap(Tail(calls))

IsReduce(task) == task # << >> /\ task[1] = "Reduce"

\* The workers that hold a task or the value computed from one.
BusyWorkers == { w \in Workers : worker_pc[w] \in { "exec", "send_out" } }

\* The map and reduce calls that have failed: each deposited one error, which
\* is still queued or was returned by the router.
IsCallError(err) == err.kind \in { "MapCall", "ReduceCall" }
CallErrors ==
    Cardinality({ i \in DOMAIN error_chan : IsCallError(error_chan[i]) })
    + (IF /\ router_result # << >>
          /\ router_result[1] = "Err"
          /\ IsCallError(router_result[2]) THEN 1 ELSE 0)

\* The tasks handed to the worker input queue whose output the router has
\* not received: queued, held by a worker, queued as an output, or failed.
Outstanding ==
    Len(worker_in) + Cardinality(BusyWorkers) + Len(worker_out) + CallErrors

\* The router has left its loop without force_shutdown.
GracefulExit ==
    /\ router_pc \in { "join_signal", "join_wait", "return", "done" }
    /\ ~should_force_shutdown

\* The router has left its loop with force_shutdown and has not yet read
\* the error it returns.
ForcedExit ==
    /\ router_pc \in { "join_signal", "join_wait", "return" }
    /\ should_force_shutdown

AllThreadsTerminated ==
    /\ router_pc = "done"
    /\ reporter_pc = "done"
    /\ \A w \in Workers : worker_pc[w] = "done"

\* --------------------------------------------------------------- claims
\* C1: in a run with no worker error, join returns the sum of map(v) over the
\* vertices whose add_vertex returned true, each dispatched as a Map once.
C1_SumOfAccepted ==
    (caller_pc = "returned" /\ NoWorkerError /\ Accepted # << >>) =>
        /\ join_result = << "Ok", JsonNum(SumMap(Accepted)) >>
        /\ progress = Len(Accepted)

\* C2: with exactly one vertex submitted and no worker error, no Reduce task
\* is dispatched and join returns map(v).
C2_SingleVertex ==
    (Len(add_calls) = 1 /\ add_calls[1].ok /\ NoWorkerError) =>
        /\ ~IsReduce(router_task)
        /\ \A i \in DOMAIN worker_in : ~IsReduce(worker_in[i])
        /\ \A w \in Workers : worker_pc[w] = "exec" => ~IsReduce(worker_item[w])
        /\ caller_pc = "returned" =>
               join_result = << "Ok", JsonNum(MapFn(add_calls[1].vertex)) >>

\* C3: with no vertex submitted and no worker error, the router ends
\* gracefully with no carry and the result, also of join, is the null value.
C3_EmptyInputNull ==
    (router_pc = "done" /\ Accepted = << >> /\ NoWorkerError) =>
        /\ ~should_force_shutdown
        /\ last_reduced_item = << >>
        /\ router_result = << "Ok", JsonNull >>
        /\ caller_pc = "returned" => join_result = << "Ok", JsonNull >>

C3_Witness ==
    /\ caller_pc = "returned"
    /\ Accepted = << >>
    /\ NoWorkerError
    /\ join_result = << "Ok", JsonNull >>

\* C4: once a map or reduce call has failed, the result of the router, and
\* of join, is never a value: it is an Err of one of the three kinds.
C4_CallFailureNeverOk ==
    CallErrors > 0 =>
        /\ ~GracefulExit
        /\ router_result # << >> =>
               /\ router_result[1] = "Err"
               /\ router_result[2].kind \in { "WorkerSetup", "MapCall", "ReduceCall" }
        /\ join_result # << >> => join_result[1] = "Err"

C4_Witness ==
    /\ caller_pc = "returned"
    /\ should_gracefully_shutdown
    /\ join_result[1] = "Err"
    /\ join_result[2].kind = "WorkerSetup"
    /\ \E i \in DOMAIN error_chan : error_chan[i].kind = "ReduceCall"

\* C5: after a worker has reported an error the run does not hang: as long
\* as the router has not terminated, the router or a worker can take a step
\* (a blocked router or worker is unblocked by the router or a worker only,
\* so a state where none of them can step is a hang of the run and of join).
C5_NoHangAfterError ==
    (ErrorQueued(error_chan) /\ ~RouterTerminated) =>
        ENABLED (RouterNext \/ WorkerNext)

\* C6: in a run with no worker error, a join that was called does not end in
\* a panic and does not get stuck, and when it has returned it has returned
\* the router's result and the router, the reporter and the workers are done.
C6_JoinReturnsAllTerminated ==
    (caller_pc # "running" /\ NoWorkerError) =>
        /\ caller_pc # "panicked"
        /\ caller_pc # "returned" => ENABLED Next
        /\ caller_pc = "returned" =>
               /\ join_result = router_result
               /\ AllThreadsTerminated

\* C7: an add_vertex called after the router has terminated returns false and
\* enqueues nothing; one that returns true found the router's receiver open
\* and enqueued its vertex.
C7_SubmitAfterTermination ==
    [][ Len(add_calls') = Len(add_calls) + 1 =>
          LET call == add_calls'[Len(add_calls')] IN
          /\ RouterTerminated => (~call.ok /\ mapreduce_in' = mapreduce_in)
          /\ call.ok => /\ ~RouterTerminated
                        /\ mapreduce_in' = Append(mapreduce_in, call.vertex) ]_vars

C7_Witness ==
    /\ RouterTerminated
    /\ \E i \in DOMAIN add_calls : ~add_calls[i].ok
    /\ \E i \in DOMAIN add_calls : add_calls[i].ok

\* C8: whenever the router is not in the middle of a dispatch, pending_tasks
\* is the number of tasks handed to the worker input queue whose output the
\* router has not received, and it has never gone below zero.
C8_PendingIsOutstanding ==
    /\ pending_tasks >= 0
    /\ router_pc # "send_task" => pending_tasks = Outstanding

\* C9: when the router ends gracefully pending_tasks is 0, no task is queued
\* or held by a worker, no output is queued, and the value returned is the
\* carry, or null without one.
C9_GracefulExitDrained ==
    GracefulExit =>
        /\ pending_tasks = 0
        /\ worker_in = << >>
        /\ BusyWorkers = { }
        /\ worker_out = << >>
        /\ router_result # << >> =>
               /\ router_result[1] = "Ok"
               /\ last_reduced_item = << >> => router_result[2] = << "null" >>
               /\ last_reduced_item # << >> =>
                      router_result[2] = << "num", last_reduced_item[1] >>

C9_Witness ==
    /\ GracefulExit
    /\ router_result # << >>
    /\ last_reduced_item # << >>
    /\ progress = MaxVertices

\* C10: whenever the router has left its loop with force_shutdown set, the
\* error channel holds an error, and the read of the error never panics.
C10_ForcedExitHasError ==
    /\ router_pc # "panicked"
    /\ ForcedExit => ErrorQueued(error_chan)

\* force_shutdown was set by a failed send alone: the task counted was never
\* handed to a worker.
C10_Witness ==
    /\ ForcedExit
    /\ router_pc = "return"
    /\ pending_tasks > Outstanding
    /\ Len(error_chan) = NumWorkers

\* What a task is worth once executed, under the script of the model.
TaskValue(task) ==
    IF task[1] = "Map" THEN MapFn(task[2]) ELSE ReduceFn(task[2], task[3])

RECURSIVE SumTasks(_)
SumTasks(tasks) ==
    IF tasks = << >> THEN 0 ELSE TaskValue(Head(tasks)) + SumTasks(Tail(tasks))

RECURSIVE SumValues(_)
SumValues(values) ==
    IF values = << >> THEN 0 ELSE Head(values) + SumValues(Tail(values))

RECURSIVE SumHeld(_)
SumHeld(ws) ==
    IF ws = { } THEN 0
    ELSE LET w == CHOOSE x \in ws : TRUE IN
         (IF worker_pc[w] = "exec" THEN TaskValue(worker_item[w])
          ELSE IF worker_pc[w] = "send_out" THEN worker_item[w][1]
          ELSE 0) + SumHeld(ws \ { w })

\* The values the run holds: the carry (moved into the Reduce task while that
\* task is being sent), the task being sent, the tasks queued, the tasks and
\* values held by workers, the outputs queued.
AccountedSum ==
    (IF last_reduced_item # << >> /\ ~IsReduce(router_task)
       THEN last_reduced_item[1] ELSE 0)
    + (IF router_task # << >> THEN TaskValue(router_task) ELSE 0)
    + SumTasks(worker_in) + SumHeld(Workers) + SumValues(worker_out)

\* The accepted vertices the router has taken from its input channel: the
\* channel is first-in first-out.
TakenFromInput == SubSeq(Accepted, 1, Len(Accepted) - Len(mapreduce_in))

\* C11: in an error-free run the carry, the queued and executing tasks and the
\* queued outputs together hold every dispatched Map exactly once: a received
\* value becomes the carry or is paired with it into one Reduce task, none is
\* dropped or used twice; and at most one carry is held.
C11_ValuesConserved ==
    /\ Len(last_reduced_item) <= 1
    /\ NoWorkerError => AccountedSum = SumMap(TakenFromInput)

C11_Witness ==
    /\ NoWorkerError
    /\ last_reduced_item = << >>
    /\ \E w \in Workers : worker_pc[w] = "exec" /\ IsReduce(worker_item[w])

\* The router is in its loop, between two of its channel operations.
RouterInLoop ==
    router_pc \in { "poll_error", "poll_shutdown", "poll_reporter", "poll_out",
                    "poll_in" }

\* The router has left its loop.
RouterLeftLoop == router_pc \in { "join_signal", "join_wait", "return", "done" }

\* C12: the router has left its loop exactly when force_shutdown holds or
\* graceful_shutdown holds with pending_tasks = 0: it is never out of the
\* loop without force_shutdown while pending_tasks > 0, and it is still in
\* the loop while neither condition holds.
C12_TerminationPredicate ==
    /\ RouterLeftLoop =>
           \/ should_force_shutdown
           \/ should_gracefully_shutdown /\ pending_tasks = 0
    /\ RouterInLoop =>
           /\ ~should_force_shutdown
           /\ ~(should_gracefully_shutdown /\ pending_tasks = 0)

\* The router iterates on during a graceful drain.
C12_Witness ==
    /\ router_pc = "poll_error"
    /\ should_gracefully_shutdown
    /\ pending_tasks > 0
    /\ NoWorkerError

\* A router step that ends an iteration without having moved any data.
IterationEndsNoData ==
    /\ router_pc' \in { "poll_error", "join_signal" }
    /\ worker_out' = worker_out
    /\ mapreduce_in' = mapreduce_in
    /\ worker_in' = worker_in
    /\ router_task' = << >>
    /\ pending_tasks' = pending_tasks

\* C13: the router examines error, shutdown, reporter tick, worker output and
\* input vertex in this order and handles only the first that is ready: a
\* step that finds an error or a shutdown signal queued ends the iteration
\* with no output consumed and no task dispatched, and a shutdown signal
\* queued when the router polls for it is consumed and acted on by that poll,
\* whatever is queued on worker_out and mapreduce_in.
C13_FixedPriority ==
    [][ /\ Len(worker_out') < Len(worker_out) => router_pc = "poll_out"
        /\ Len(mapreduce_in') < Len(mapreduce_in) => router_pc = "poll_in"
        /\ Len(worker_in') > Len(worker_in) => router_pc = "send_task"
        /\ router_pc' # router_pc =>
            /\ router_pc = "poll_error" =>
                 IF ErrorQueued(error_chan)
                   THEN should_force_shutdown' /\ IterationEndsNoData
                   ELSE router_pc' = "poll_shutdown"
            /\ router_pc = "poll_shutdown" =>
                 IF shutdown_chan > 0
                   THEN /\ should_gracefully_shutdown'
                        /\ shutdown_chan' = shutdown_chan - 1
                        /\ IterationEndsNoData
                   ELSE router_pc' = "poll_reporter"
            /\ router_pc = "poll_reporter" =>
                 IF reporter_pc = "send"
                   THEN report_num' = report_num + 1 /\ IterationEndsNoData
                   ELSE router_pc' = "poll_out"
            /\ router_pc = "poll_out" =>
                 IF worker_out # << >>
                   THEN /\ worker_out' = Tail(worker_out)
                        /\ mapreduce_in' = mapreduce_in
                        /\ router_pc' \in { "send_task", "poll_error", "join_signal" }
                   ELSE router_pc' = "poll_in"
            /\ router_pc = "poll_in" =>
                 IF mapreduce_in # << >>
                   THEN router_pc' = "send_task"
                   ELSE router_pc' \in { "poll_error", "join_signal" } ]_vars

\* The shutdown signal has been acted on with an output and a vertex queued.
C13_Witness ==
    /\ should_gracefully_shutdown
    /\ RouterInLoop
    /\ worker_out # << >>
    /\ mapreduce_in # << >>

\* C14: when a worker error is queued while the router is in its loop with
\* should_gracefully_shutdown set, the router leaves the loop only with
\* should_force_shutdown set (and so returns the error, not a value).
C14_ErrorUpgradesDrain ==
    [][ ( /\ RouterInLoop
          /\ should_gracefully_shutdown
          /\ ErrorQueued(error_chan)
          /\ RouterLeftLoop' ) => should_force_shutdown' ]_vars

\* The router step of a send on worker_in that fails: no worker is left to
\* receive.
FailedDispatch ==
    /\ router_pc = "send_task"
    /\ router_pc' # "send_task"
    /\ ~WorkerInConnected

\* C15: a send of a Map or Reduce task on worker_in that fails sets
\* should_force_shutdown and leaves pending_tasks and progress as they were.
C15_FailedDispatchNotCounted ==
    [][ FailedDispatch => /\ should_force_shutdown'
                          /\ pending_tasks' = pending_tasks
                          /\ progress' = progress ]_vars

\* The router step whose shutdown_receiver.try_recv() takes a signal.
RouterTakesSignal ==
    /\ router_pc = "poll_shutdown"
    /\ router_pc' # router_pc
    /\ shutdown_chan' = shutdown_chan - 1

\* C16: of the two signals join() sends, the router takes at most one: it
\* takes none once it has taken the one that set should_gracefully_shutdown,
\* so the other is left to the reporter.
C16_RouterTakesOneSignal ==
    [][ RouterTakesSignal => ~should_gracefully_shutdown ]_vars

\* C17: the reporter thread never ends in a panic, join() panics only for a
\* panic of the router, and a join() that returns has returned the router's
\* result.
C17_ReporterHarmless ==
    /\ reporter_pc # "panicked"
    /\ caller_pc = "panicked" => router_pc = "panicked"
    /\ caller_pc = "returned" => join_result = router_result

\* C18: errors queue up on the error channel in deposit order and none leaves
\* it before the router returns; a forced termination returns the one at the
\* head, the first deposited, and the result is never replaced by a later one.
C18_FirstErrorReturned ==
    [][ /\ (error_chan' # error_chan /\ router_pc # "return") =>
              \E e \in { error_chan'[Len(error_chan')] } :
                  error_chan' = Append(error_chan, e)
        /\ (router_pc = "return" /\ router_pc' = "done" /\ should_force_shutdown) =>
              /\ router_result' = << "Err", Head(error_chan) >>
              /\ error_chan' = Tail(error_chan)
        /\ router_result # << >> => router_result' = router_result ]_vars

\* The router has returned the first of two different errors; the second is
\* left on the channel.
C18_Witness ==
    /\ router_pc = "done"
    /\ router_result[1] = "Err"
    /\ error_chan # << >>
    /\ error_chan[1] # router_result[2]

\* ------------------------------------------------ runs with more vertices
\* The runs in which no setup and no map or reduce call fails and the
\* reporter's recv_timeout never times out, the caller submitting up to two
\* vertices more than in Spec: long enough for two pairs of map outputs.
ErrorFreeNext ==
    \/ WorkerNext /\ UNCHANGED error_chan
    \/ ReporterRecvShutdown
    \/ RouterNext
    \/ AddVertexUpTo(MaxVertices + 2)
    \/ JoinSendShutdown
    \/ JoinReporter
    \/ JoinRouter

ErrorFreeSpec == Init /\ [][ErrorFreeNext]_vars

\* The Reduce tasks queued on worker_in or being executed by a worker.
ReduceOutstanding ==
    Len(SelectSeq(worker_in, IsReduce))
      + Cardinality({ w \in Workers :
                        worker_pc[w] = "exec" /\ IsReduce(worker_item[w]) })

\* C19: in every reachable state at most one Reduce task is queued on
\* worker_in or being executed.
C19_OneReduceAtATime == ReduceOutstanding <= 1

\* C20: a worker leaves its setup either passed, for the task loop and with
\* nothing deposited, or failed: it then has deposited one WorkerSetup error,
\* has taken no task and produced no output, and has terminated for good.  A
\* task is taken from worker_in only by a worker in its task loop.
C20_SetupFailureTerminates ==
    [][ \A w \in Workers :
          /\ (worker_pc[w] = "setup" /\ worker_pc'[w] # "setup") =>
                /\ worker_in' = worker_in
                /\ worker_out' = worker_out
                /\ worker_item'[w] = << >>
                /\ \/ /\ worker_pc'[w] = "select"
                      /\ error_chan' = error_chan
                   \/ /\ worker_pc'[w] = "done"
                      /\ error_chan' = Append(error_chan, WorkerSetupError)
          /\ worker_pc[w] = "done" => worker_pc'[w] = "done"
          /\ (worker_item'[w] # worker_item[w] /\ Len(worker_in') < Len(worker_in)) =>
                worker_pc[w] = "select" ]_vars

\* A worker has failed its setup and is terminated while the router is in its
\* loop and a task is queued that the worker has not taken.
C20_Witness ==
    /\ RouterInLoop
    /\ error_chan = << WorkerSetupError >>
    /\ \E w \in Workers : worker_pc[w] = "done"
    /\ worker_in # << >>

\* ------------------------------------------------ runs that fill the pipeline
\* The runs of the router loop and the workers before join is called, with no
\* failure and no reporter tick, the caller submitting up to three vertices
\* more than in Spec: as many as it takes to fill worker_in and worker_out
\* and to occupy every worker and the router at once.
PipelineNext ==
    \/ WorkerNext /\ UNCHANGED error_chan
    \/ RouterPollError
    \/ RouterPollShutdown
    \/ RouterPollReporter
    \/ RouterPollOut
    \/ RouterPollIn
    \/ RouterSendTask
    \/ AddVertexUpTo(MaxVertices + 3)

PipelineSpec == Init /\ [][PipelineNext]_vars

\* worker_in_sender.send(..) cannot complete: worker_in is full and a worker
\* still holds its receiver.
RouterBlocked ==
    /\ router_pc = "send_task"
    /\ WorkerInConnected
    /\ Len(worker_in) >= CHANNEL_CAPACITY

\* out_sender.send(value) cannot complete: worker_out is full and the router
\* still holds its receiver.
WorkerBlocked(w) ==
    /\ worker_pc[w] = "send_out"
    /\ ~RouterTerminated
    /\ Len(worker_out) >= CHANNEL_CAPACITY

\* C21: in a run with no worker error the router is never blocked sending on
\* a full worker_in while every worker is blocked sending on a full
\* worker_out, and whenever the router or a worker is blocked in a send the
\* router or a worker can take a step.
C21_NoChannelDeadlock ==
    NoWorkerError =>
        /\ ~(RouterBlocked /\ \A w \in Workers : WorkerBlocked(w))
        /\ (RouterBlocked \/ \E w \in Workers : WorkerBlocked(w)) =>
               ENABLED (RouterNext \/ WorkerNext)

\* The router is blocked on a full worker_in while all workers but one are
\* blocked on a full worker_out.
C21_Witness ==
    /\ NoWorkerError
    /\ RouterBlocked
    /\ Cardinality({ w \in Workers : WorkerBlocked(w) }) = NumWorkers - 1

====
